---- MODULE Spec2Model ----
(***************************************************************************)
(* ConsoleGameEngine.h: the game thread (GameThread), the console close    *)
(* handler (CloseHandler), the audio lifecycle (StartAudio, DestroyAudio), *)
(* the audio worker (AudioThread) and the waveOut completion callback      *)
(* (waveOutProc), with the waveOut device as a FIFO of submitted blocks.   *)
(***************************************************************************)
EXTENDS Integers, Sequences, FiniteSets, TLC

\* ------------------------------------------------------------- bounds ----
\* largest blockCount argument given to StartAudio
MaxBlocks == 2
\* frames written per block (samplesPerBlock / channels)
FramesPerBlock == 2
\* audio API calls the user hooks make in one run of the program
MaxUserCalls == 2

BlockCounts == 1..MaxBlocks

VARIABLES
    \* ---- GameThread / CloseHandler ----
    gpc,              \* position of the game thread
    sret,             \* hook StartAudio returns to
    dret,             \* position DestroyAudio returns to
    argBlockCount,    \* StartAudio's blockCount argument
    running,          \* static std::atomic<bool> running
    hpc,              \* position of CloseHandler
    hevt,             \* the event CloseHandler was called with
    signalCount,      \* number of finished.notify_one() calls made
    teardownDone,     \* clips and screen released, console closed
    destroyAccepted,  \* OnDestroy has returned true
    userCalls,        \* audio API calls made by the user hooks so far
    crashed,          \* the process was aborted by undefined behaviour
    requestEarly,     \* the close request came before OnDestroy accepted (history)
    midBlockStop,     \* DestroyAudio was called with the worker mid-block (history)
    \* ---- audio engine ----
    audioThreadActive,
    wpc,              \* position of AudioThread ("none": no thread object)
    fillPos,          \* frames of the claimed block written so far
    currentBlock,
    freeBlocks,
    blockCount,
    writingBlock,     \* owner of the mutex writingBlock
    cpc,              \* position of waveOutProc on the driver thread
    queue,            \* blocks written to the device, not yet completed
    prepared,         \* headers with WHDR_PREPARED set
    samplesMemory,    \* "null", "live" or "freed" (dangling pointer)
    blocks,           \* "null", "live" or "freed" (dangling pointer)
    device,           \* "none" (0), "open" or "closed" (stale handle)
    startedN,         \* blockCount of the last StartAudio (history)
    releasedTwice,    \* resources released a second time (history)
    oobAccess,        \* blocks[currentBlock] outside the array (history)
    \* ---- playback instance table ----
    currentlyPlayingClips,  \* std::list<CurrentlyPlayingClip>
    mixpc,            \* position of the audio thread in GetMixerOutput
    mixIdx,           \* element the sweep is at
    ctlpc,            \* control-path call the game thread is in
    ctlIdx,           \* element the control-path loop is at
    ctlId,            \* id argument of the control-path call
    ctlLoop,          \* loop argument of PlayAudioClip
    tcrashed,         \* aborted by a list operation on a dangling iterator
    \* ---- histories of StartAudio and of the ring ----
    preStart,         \* the audio state when StartAudio was called (history)
    lastSubmitted,    \* block last given to waveOutWrite in this run (history)
    \* ---- clips, the fill loop of AudioThread and GetMixerOutput ----
    audioClips,       \* std::vector<AudioClip>
    channels,         \* this->channels
    globalTime,       \* std::atomic<float> globalTime
    mixChan,          \* channel index c of the fill loop
    ticks,            \* frames written since the instances were played
    played,           \* PlayAudioClip calls made before the first frame
    mixLoop,          \* loop argument of those calls
    hookSample,       \* what onUserSoundSample returns
    lastFrame,        \* frame and channel of the last GetMixerOutput call
    lastChan,
    lastMixed,        \* what that call returned
    lastWritten,      \* the short written to samplesMemory for it
    refClips,         \* a table holding one instance of the same clip
    refMixed,         \* what GetMixerOutput returns for that table
    lastCall,         \* the playback function or sweep that ran last
    \* ---- AudioClip(fileName) and LoadAudioClip ----
    lpc,              \* position of LoadAudioClip
    file,             \* the file fileName names
    field,            \* char field[4]
    subchunkSize,     \* long subchunkSize
    chunkAt,          \* the chunk the file position is at
    audioClip,        \* the local AudioClip of LoadAudioClip
    loadResult,       \* what LoadAudioClip returned
    storeBefore,      \* audioClips when LoadAudioClip was called (history)
    \* ---- Sprite ----
    spc,              \* what has been done with the sprite
    sprite,           \* the Sprite that is created, drawn on and saved
    saved,            \* the bytes of the file Save wrote
    target,           \* the Sprite after Load
    scrashed          \* the process was aborted in Load

lifeVars  == <<gpc, sret, dret, argBlockCount, running, hpc, hevt,
               signalCount, teardownDone, destroyAccepted, userCalls, crashed,
               requestEarly, midBlockStop>>
audioVars == <<audioThreadActive, wpc, fillPos, currentBlock, freeBlocks,
               blockCount, writingBlock, cpc, queue, prepared, samplesMemory,
               blocks, device, startedN, releasedTwice, oobAccess>>
tableVars == <<currentlyPlayingClips, mixpc, mixIdx, ctlpc, ctlIdx, ctlId,
               ctlLoop, tcrashed>>
histVars  == <<preStart, lastSubmitted>>
fillVars  == <<channels, globalTime, mixChan, ticks, played, mixLoop,
               hookSample, lastFrame, lastChan, lastMixed, lastWritten,
               refClips, refMixed>>
loadVars  == <<lpc, file, field, subchunkSize, chunkAt, audioClip,
               loadResult, storeBefore>>
spriteVars == <<spc, sprite, saved, target, scrashed>>
mixVars   == <<audioClips, lastCall, fillVars, loadVars, spriteVars>>
vars == <<lifeVars, audioVars, tableVars, histVars, mixVars>>

Range(s) == {s[i] : i \in DOMAIN s}

\* ---------------------------------------------------------------- Init ---
\* what StartAudio's failure path is required to leave as it found it
AudioState ==
    [blockCount |-> blockCount, freeBlocks |-> freeBlocks,
     samplesMemory |-> samplesMemory, blocks |-> blocks]

\* the engine as a caller of StartAudio finds it
CallState == [active |-> audioThreadActive, audio |-> AudioState]

\* float globalTime = 0.0f, as mantissa * 2^exponent
FloatZero == [m |-> 0, e |-> 0]

\* The engine when Start() has set running and spawned the game thread.
EngineInit ==
    /\ gpc = "onstart" /\ sret = "onstart" /\ dret = "onstart"
    /\ argBlockCount = 0
    /\ running = TRUE
    /\ hpc = "idle" /\ hevt = "NONE"
    /\ signalCount = 0 /\ teardownDone = FALSE /\ destroyAccepted = FALSE
    /\ userCalls = 0 /\ crashed = FALSE
    /\ requestEarly = FALSE /\ midBlockStop = FALSE
    /\ audioThreadActive = FALSE
    /\ wpc = "none" /\ fillPos = 0
    /\ currentBlock = 0 /\ freeBlocks = 0 /\ blockCount = 0
    /\ writingBlock = "free" /\ cpc = "idle"
    /\ queue = <<>> /\ prepared = {}
    /\ samplesMemory = "null" /\ blocks = "null" /\ device = "none"
    /\ startedN = 0 /\ releasedTwice = {} /\ oobAccess = FALSE
    /\ currentlyPlayingClips = <<>>
    /\ mixpc = "idle" /\ mixIdx = 1
    /\ ctlpc = "idle" /\ ctlIdx = 1 /\ ctlId = 0 /\ ctlLoop = FALSE
    /\ tcrashed = FALSE
    /\ preStart = CallState /\ lastSubmitted = 0 - 1

\* no file is open
NoFile ==
    [outer |-> "", form |-> "", fmtTag |-> "", bits |-> 0, rate |-> 0,
     nChannels |-> 0, chunks |-> <<>>, declared |-> 0, present |-> 0,
     pattern |-> "zero"]

\* AudioClip(): isValid = false, data = nullptr
DefaultClip ==
    [isValid |-> FALSE, pattern |-> "zero", nChannels |-> 0, length |-> 0,
     present |-> 0]

\* LoadAudioClip has not been called
LoadIdle ==
    /\ lpc = "idle" /\ file = NoFile /\ field = "" /\ subchunkSize = 0
    /\ chunkAt = 0 /\ audioClip = DefaultClip
    /\ loadResult = [hi |-> 0, lo |-> 0] /\ storeBefore = <<>>

\* Sprite(): width = 0, height = 0, contents = nullptr
NewSprite == [width |-> 0, height |-> 0, alloc |-> FALSE, contents |-> <<>>]

\* no sprite has been made
SpriteIdle ==
    /\ spc = "none" /\ sprite = NewSprite /\ saved = <<>>
    /\ target = NewSprite /\ scrashed = FALSE

\* no frame has been mixed
MixIdle ==
    /\ mixChan = 0 /\ ticks = 0 /\ played = 0
    /\ lastFrame = 0 /\ lastChan = 0 /\ lastMixed = 0 /\ lastWritten = 0
    /\ refClips = <<>> /\ refMixed = 0
    /\ lastCall = [op |-> "none", id |-> 0]
    /\ LoadIdle
    /\ SpriteIdle

\* The state when Start() has set running and spawned the game thread.
Init ==
    /\ EngineInit
    /\ audioClips = <<>> /\ channels = 0 /\ globalTime = FloatZero
    /\ mixLoop = FALSE /\ hookSample = 0
    /\ MixIdle

\* ------------------------------------------------ condition variables ----
\* blockWritten.notify_one(): the worker is the only waiter
NotifyBlockWritten(w) == IF w = "waiting" THEN "relock" ELSE w

\* finished.notify_one(): CloseHandler is the only waiter
NotifyFinished(h) == IF h = "waiting" THEN "woken" ELSE h

\* ---------------------------------------------------------- GameThread ---
Hooks == {"onstart", "update"}

\* if (!OnStart()) running = false;
OnStartReturn ==
    /\ ~crashed /\ gpc = "onstart"
    /\ \E r \in BOOLEAN : running' = IF r THEN running ELSE FALSE
    /\ gpc' = "loop"
    /\ UNCHANGED <<sret, dret, argBlockCount, hpc, hevt, signalCount,
                   teardownDone, destroyAccepted, userCalls, crashed>>
    /\ UNCHANGED audioVars
    /\ UNCHANGED <<requestEarly, midBlockStop>>
    /\ UNCHANGED histVars
    /\ UNCHANGED <<tableVars, mixVars>>

\* while (running)
LoopTest ==
    /\ ~crashed /\ gpc = "loop"
    /\ gpc' = IF running THEN "update" ELSE "done"
    /\ UNCHANGED <<sret, dret, argBlockCount, running, hpc, hevt, signalCount,
                   teardownDone, destroyAccepted, userCalls, crashed>>
    /\ UNCHANGED audioVars
    /\ UNCHANGED <<requestEarly, midBlockStop>>
    /\ UNCHANGED histVars
    /\ UNCHANGED <<tableVars, mixVars>>

\* ReadInput(); if (!OnUpdate(elapsedTime)) running = false; WriteConsoleOutput
OnUpdateReturn ==
    /\ ~crashed /\ gpc = "update"
    /\ \E r \in BOOLEAN : running' = IF r THEN running ELSE FALSE
    /\ gpc' = "check"
    /\ UNCHANGED <<sret, dret, argBlockCount, hpc, hevt, signalCount,
                   teardownDone, destroyAccepted, userCalls, crashed>>
    /\ UNCHANGED audioVars
    /\ UNCHANGED <<requestEarly, midBlockStop>>
    /\ UNCHANGED histVars
    /\ UNCHANGED <<tableVars, mixVars>>

\* if (!running)
CheckRunning ==
    /\ ~crashed /\ gpc = "check"
    /\ gpc' = IF ~running THEN "ondestroy" ELSE "loop"
    /\ UNCHANGED <<sret, dret, argBlockCount, running, hpc, hevt, signalCount,
                   teardownDone, destroyAccepted, userCalls, crashed>>
    /\ UNCHANGED audioVars
    /\ UNCHANGED <<requestEarly, midBlockStop>>
    /\ UNCHANGED histVars
    /\ UNCHANGED <<tableVars, mixVars>>

\* if (OnDestroy()) { DestroyAudio(); ... } else running = true;
OnDestroyReturn ==
    /\ ~crashed /\ gpc = "ondestroy"
    /\ \E r \in BOOLEAN :
         IF r
         THEN /\ destroyAccepted' = TRUE
              /\ gpc' = "d_signal" /\ dret' = "teardown"
              /\ UNCHANGED running
         ELSE /\ running' = TRUE
              /\ gpc' = "loop"
              /\ UNCHANGED <<dret, destroyAccepted>>
    /\ UNCHANGED <<sret, argBlockCount, hpc, hevt, signalCount, teardownDone,
                   userCalls, crashed>>
    /\ UNCHANGED audioVars
    /\ UNCHANGED <<requestEarly, midBlockStop>>
    /\ UNCHANGED histVars
    /\ UNCHANGED <<tableVars, mixVars>>

\* delete[] clip.data; delete[] screen; SetConsoleMode; CloseHandle(console)
Teardown ==
    /\ ~crashed /\ gpc = "teardown"
    /\ teardownDone' = TRUE
    /\ gpc' = "notify"
    /\ UNCHANGED <<sret, dret, argBlockCount, running, hpc, hevt, signalCount,
                   destroyAccepted, userCalls, crashed>>
    /\ UNCHANGED audioVars
    /\ UNCHANGED <<requestEarly, midBlockStop>>
    /\ UNCHANGED histVars
    /\ UNCHANGED <<tableVars, mixVars>>

\* finished.notify_one();
SignalFinished ==
    /\ ~crashed /\ gpc = "notify"
    /\ signalCount' = signalCount + 1
    /\ hpc' = NotifyFinished(hpc)
    /\ gpc' = "loop"
    /\ UNCHANGED <<sret, dret, argBlockCount, running, hevt, teardownDone,
                   destroyAccepted, userCalls, crashed>>
    /\ UNCHANGED audioVars
    /\ UNCHANGED <<requestEarly, midBlockStop>>
    /\ UNCHANGED histVars
    /\ UNCHANGED <<tableVars, mixVars>>

\* ---------------------------------------------------------- CloseHandler -
Events == {"CLOSE", "OTHER"}

\* if (evt == CTRL_CLOSE_EVENT) { running = false; ... } return true;
HandlerArrive ==
    /\ ~crashed /\ hpc = "idle" /\ gpc # "done"
    /\ \E evt \in Events :
         /\ hevt' = evt
         /\ requestEarly' = (evt = "CLOSE" /\ ~destroyAccepted)
         /\ IF evt = "CLOSE"
            THEN running' = FALSE /\ hpc' = "lock"
            ELSE hpc' = "returned" /\ UNCHANGED running
    /\ UNCHANGED <<gpc, sret, dret, argBlockCount, signalCount, teardownDone,
                   destroyAccepted, userCalls, crashed>>
    /\ UNCHANGED audioVars
    /\ UNCHANGED <<midBlockStop>>
    /\ UNCHANGED histVars
    /\ UNCHANGED <<tableVars, mixVars>>

\* std::unique_lock<std::mutex> lock(gameMutex); finished.wait(lock);
HandlerWait ==
    /\ ~crashed /\ hpc = "lock"
    /\ hpc' = "waiting"
    /\ UNCHANGED <<gpc, sret, dret, argBlockCount, running, hevt, signalCount,
                   teardownDone, destroyAccepted, userCalls, crashed>>
    /\ UNCHANGED audioVars
    /\ UNCHANGED <<requestEarly, midBlockStop>>
    /\ UNCHANGED histVars
    /\ UNCHANGED <<tableVars, mixVars>>

\* condition_variable::wait(lock) may also unblock spuriously
HandlerSpuriousWake ==
    /\ ~crashed /\ hpc = "waiting"
    /\ hpc' = "woken"
    /\ UNCHANGED <<gpc, sret, dret, argBlockCount, running, hevt, signalCount,
                   teardownDone, destroyAccepted, userCalls, crashed>>
    /\ UNCHANGED audioVars
    /\ UNCHANGED <<requestEarly, midBlockStop>>
    /\ UNCHANGED histVars
    /\ UNCHANGED <<tableVars, mixVars>>

\* return true;
HandlerReturn ==
    /\ ~crashed /\ hpc = "woken"
    /\ hpc' = "returned"
    /\ UNCHANGED <<gpc, sret, dret, argBlockCount, running, hevt, signalCount,
                   teardownDone, destroyAccepted, userCalls, crashed>>
    /\ UNCHANGED audioVars
    /\ UNCHANGED <<requestEarly, midBlockStop>>
    /\ UNCHANGED histVars
    /\ UNCHANGED <<tableVars, mixVars>>

\* the game-thread state the audio calls leave alone
gameRest == <<running, hpc, hevt, signalCount, teardownDone, destroyAccepted>>

\* ------------------------------------------- calls made by the user hooks -
\* OnStart / OnUpdate call StartAudio(samplesPerSec, channels, n, ...)
UserStartAudio ==
    /\ ~crashed /\ gpc \in Hooks /\ userCalls < MaxUserCalls
    /\ \E n \in BlockCounts : argBlockCount' = n
    /\ sret' = gpc
    /\ gpc' = "s_check"
    /\ userCalls' = userCalls + 1
    /\ UNCHANGED <<dret, crashed>>
    /\ UNCHANGED gameRest
    /\ UNCHANGED audioVars
    /\ UNCHANGED <<requestEarly, midBlockStop>>
    /\ preStart' = CallState
    /\ UNCHANGED lastSubmitted
    /\ UNCHANGED <<tableVars, mixVars>>

\* OnStart / OnUpdate call DestroyAudio()
UserDestroyAudio ==
    /\ ~crashed /\ gpc \in Hooks /\ userCalls < MaxUserCalls
    /\ dret' = gpc
    /\ gpc' = "d_signal"
    /\ userCalls' = userCalls + 1
    /\ UNCHANGED <<sret, argBlockCount, crashed>>
    /\ UNCHANGED gameRest
    /\ UNCHANGED audioVars
    /\ UNCHANGED <<requestEarly, midBlockStop>>
    /\ UNCHANGED histVars
    /\ UNCHANGED <<tableVars, mixVars>>

\* ---------------------------------------------------------- StartAudio ---
\* StartAudio going on to install over whatever is running
StartCheck_NoStop ==
    /\ ~crashed /\ gpc = "s_check"
    /\ gpc' = "s_install" /\ UNCHANGED dret
    /\ UNCHANGED <<sret, argBlockCount, userCalls, crashed>>
    /\ UNCHANGED gameRest
    /\ UNCHANGED audioVars
    /\ UNCHANGED <<requestEarly, midBlockStop>>
    /\ UNCHANGED histVars
    /\ UNCHANGED <<tableVars, mixVars>>

\* if (audioThreadActive) DestroyAudio();
StartCheck ==
    /\ ~crashed /\ gpc = "s_check"
    /\ IF audioThreadActive
       THEN gpc' = "d_signal" /\ dret' = "s_install"
       ELSE gpc' = "s_install" /\ UNCHANGED dret
    /\ UNCHANGED <<sret, argBlockCount, userCalls, crashed>>
    /\ UNCHANGED gameRest
    /\ UNCHANGED audioVars
    /\ UNCHANGED <<requestEarly, midBlockStop>>
    /\ UNCHANGED histVars
    /\ UNCHANGED <<tableVars, mixVars>>

\* the parameters are installed, freeBlocks = blockCount, then waveOutOpen;
\* on success the buffers are allocated and zeroed and the worker is spawned
StartInstall ==
    /\ ~crashed /\ gpc = "s_install"
    /\ blockCount' = argBlockCount
    /\ freeBlocks' = argBlockCount
    /\ startedN' = argBlockCount
    /\ \E opened \in BOOLEAN :
         IF opened
         THEN /\ device' = "open"
              /\ queue' = <<>>
              /\ samplesMemory' = "live"
              /\ blocks' = "live"
              /\ prepared' = {}
              /\ audioThreadActive' = TRUE
              /\ wpc' = "top"
              /\ crashed' = (wpc # "none")
              /\ lastSubmitted' = 0 - 1
              /\ gpc' = "s_notify"
         ELSE /\ gpc' = sret
              /\ UNCHANGED <<device, queue, samplesMemory, blocks, prepared,
                             audioThreadActive, wpc, crashed, lastSubmitted>>
    /\ UNCHANGED <<sret, dret, argBlockCount, userCalls>>
    /\ UNCHANGED gameRest
    /\ UNCHANGED <<fillPos, currentBlock, writingBlock, cpc, releasedTwice,
                   oobAccess>>
    /\ UNCHANGED <<requestEarly, midBlockStop>>
    /\ UNCHANGED preStart
    /\ UNCHANGED <<tableVars, mixVars>>

\* std::unique_lock<std::mutex> lock(writingBlock); blockWritten.notify_one();
StartNotify ==
    /\ ~crashed /\ gpc = "s_notify"
    /\ writingBlock = "free"
    /\ wpc' = NotifyBlockWritten(wpc)
    /\ gpc' = sret
    /\ UNCHANGED <<sret, dret, argBlockCount, userCalls, crashed>>
    /\ UNCHANGED gameRest
    /\ UNCHANGED <<audioThreadActive, fillPos, currentBlock, freeBlocks,
                   blockCount, writingBlock, cpc, queue, prepared,
                   samplesMemory, blocks, device, startedN, releasedTwice,
                   oobAccess>>
    /\ UNCHANGED <<requestEarly, midBlockStop>>
    /\ UNCHANGED histVars
    /\ UNCHANGED <<tableVars, mixVars>>

\* --------------------------------------------------------- DestroyAudio ---
\* audioThreadActive = false;
DestroySignal ==
    /\ ~crashed /\ gpc = "d_signal"
    /\ audioThreadActive' = FALSE
    /\ midBlockStop' = (wpc \in {"unprep", "fill"})
    /\ gpc' = "d_join"
    /\ UNCHANGED <<sret, dret, argBlockCount, userCalls, crashed>>
    /\ UNCHANGED gameRest
    /\ UNCHANGED <<wpc, fillPos, currentBlock, freeBlocks, blockCount,
                   writingBlock, cpc, queue, prepared, samplesMemory, blocks,
                   device, startedN, releasedTwice, oobAccess>>
    /\ UNCHANGED <<requestEarly>>
    /\ UNCHANGED histVars
    /\ UNCHANGED <<tableVars, mixVars>>

\* if (audioThread.joinable()) audioThread.join();
DestroyJoin ==
    /\ ~crashed /\ gpc = "d_join"
    /\ wpc \in {"none", "exited"}
    /\ wpc' = "none"
    /\ gpc' = "d_reset"
    /\ UNCHANGED <<sret, dret, argBlockCount, userCalls, crashed>>
    /\ UNCHANGED gameRest
    /\ UNCHANGED <<audioThreadActive, fillPos, currentBlock, freeBlocks,
                   blockCount, writingBlock, cpc, queue, prepared,
                   samplesMemory, blocks, device, startedN, releasedTwice,
                   oobAccess>>
    /\ UNCHANGED <<requestEarly, midBlockStop>>
    /\ UNCHANGED histVars
    /\ UNCHANGED <<tableVars, mixVars>>

\* waveOutReset(device) returns every queued block through waveOutProc;
\* waveOutClose(device); the parameters are zeroed
DestroyReset ==
    /\ ~crashed /\ gpc = "d_reset"
    /\ cpc = "idle"
    /\ IF device = "open"
       THEN /\ freeBlocks' = freeBlocks + Len(queue)
            /\ queue' = <<>>
            /\ device' = "closed"
            /\ UNCHANGED releasedTwice
       ELSE /\ releasedTwice' = IF device = "closed"
                                THEN releasedTwice \cup {"device"}
                                ELSE releasedTwice
            /\ UNCHANGED <<freeBlocks, queue, device>>
    /\ blockCount' = 0
    /\ gpc' = "d_free"
    /\ UNCHANGED <<sret, dret, argBlockCount, userCalls, crashed>>
    /\ UNCHANGED gameRest
    /\ UNCHANGED <<audioThreadActive, wpc, fillPos, currentBlock,
                   writingBlock, cpc, prepared, samplesMemory, blocks,
                   startedN, oobAccess>>
    /\ UNCHANGED <<requestEarly, midBlockStop>>
    /\ UNCHANGED histVars
    /\ UNCHANGED <<tableVars, mixVars>>

\* the pointer state after delete[] (the pointer is not reset to nullptr)
Deleted(ptr) == IF ptr = "null" THEN "null" ELSE "freed"

\* if (samplesMemory != nullptr) delete[] samplesMemory;
\* if (blocks != nullptr) { for (i < blockCount) waveOutUnprepareHeader;
\*                          delete[] blocks; }
DestroyFree ==
    /\ ~crashed /\ gpc = "d_free"
    /\ samplesMemory' = Deleted(samplesMemory)
    /\ blocks' = Deleted(blocks)
    /\ prepared' = IF blocks # "null"
                   THEN prepared \ (0..(blockCount - 1))
                   ELSE prepared
    /\ releasedTwice' = releasedTwice
          \cup (IF samplesMemory = "freed" THEN {"samplesMemory"} ELSE {})
          \cup (IF blocks = "freed" THEN {"blocks"} ELSE {})
    /\ crashed' \in (IF samplesMemory = "freed" \/ blocks = "freed"
                     THEN BOOLEAN ELSE {FALSE})
    /\ gpc' = "d_ret"
    /\ UNCHANGED <<sret, dret, argBlockCount, userCalls>>
    /\ UNCHANGED gameRest
    /\ UNCHANGED <<audioThreadActive, wpc, fillPos, currentBlock, freeBlocks,
                   blockCount, writingBlock, cpc, queue, device, startedN,
                   oobAccess>>
    /\ UNCHANGED <<requestEarly, midBlockStop>>
    /\ UNCHANGED histVars
    /\ UNCHANGED <<tableVars, mixVars>>

\* DestroyAudio returns to its caller
DestroyReturn ==
    /\ ~crashed /\ gpc = "d_ret"
    /\ gpc' = dret
    /\ midBlockStop' = FALSE
    /\ UNCHANGED <<sret, dret, argBlockCount, userCalls, crashed>>
    /\ UNCHANGED gameRest
    /\ UNCHANGED audioVars
    /\ UNCHANGED <<requestEarly>>
    /\ UNCHANGED histVars
    /\ UNCHANGED <<tableVars, mixVars>>

\* ---------------------------------------------------------- AudioThread ---
lifeNoCrash == <<gpc, sret, dret, argBlockCount, running, hpc, hevt,
                 signalCount, teardownDone, destroyAccepted, userCalls,
                 requestEarly, midBlockStop>>

\* (mutant) the test compares with the wrong sign and never makes the worker wait
NoFreeBlock_Negative(fb) == fb < 0

\* freeBlocks == 0, the test guarding the wait
NoFreeBlock(fb) == fb = 0

\* (mutant) the increment of currentBlock is missing
NextBlock_NoAdvance(cb, n) == cb % n

\* currentBlock++; currentBlock %= blockCount;
NextBlock(cb, n) == (cb + 1) % n

\* blocks[cb] and the samples at cb * samplesPerBlock lie inside the arrays
InRing(cb, n) == 0 <= cb /\ cb < n

\* while (audioThreadActive)
WorkerTop ==
    /\ ~crashed /\ wpc = "top"
    /\ wpc' = IF audioThreadActive THEN "check1" ELSE "exited"
    /\ UNCHANGED lifeVars
    /\ UNCHANGED <<audioThreadActive, fillPos, currentBlock, freeBlocks,
                   blockCount, writingBlock, cpc, queue, prepared,
                   samplesMemory, blocks, device, startedN, releasedTwice,
                   oobAccess>>
    /\ UNCHANGED histVars
    /\ UNCHANGED <<tableVars, mixVars>>

\* if (freeBlocks == 0)
WorkerCheck ==
    /\ ~crashed /\ wpc = "check1"
    /\ wpc' = IF NoFreeBlock(freeBlocks) THEN "lock" ELSE "dec"
    /\ UNCHANGED lifeVars
    /\ UNCHANGED <<audioThreadActive, fillPos, currentBlock, freeBlocks,
                   blockCount, writingBlock, cpc, queue, prepared,
                   samplesMemory, blocks, device, startedN, releasedTwice,
                   oobAccess>>
    /\ UNCHANGED histVars
    /\ UNCHANGED <<tableVars, mixVars>>

\* std::unique_lock<std::mutex> lock(writingBlock); also the re-acquisition
\* of the mutex when wait() unblocks
WorkerLock ==
    /\ ~crashed /\ wpc \in {"lock", "relock"}
    /\ writingBlock = "free"
    /\ writingBlock' = "worker"
    /\ wpc' = "check2"
    /\ UNCHANGED lifeVars
    /\ UNCHANGED <<audioThreadActive, fillPos, currentBlock, freeBlocks,
                   blockCount, cpc, queue, prepared, samplesMemory, blocks,
                   device, startedN, releasedTwice, oobAccess>>
    /\ UNCHANGED histVars
    /\ UNCHANGED <<tableVars, mixVars>>

\* while (freeBlocks == 0): to the wait, or out of the scope of the lock
WorkerRecheck ==
    /\ ~crashed /\ wpc = "check2"
    /\ IF NoFreeBlock(freeBlocks)
       THEN wpc' = "wait" /\ UNCHANGED writingBlock
       ELSE wpc' = "dec" /\ writingBlock' = "free"
    /\ UNCHANGED lifeVars
    /\ UNCHANGED <<audioThreadActive, fillPos, currentBlock, freeBlocks,
                   blockCount, cpc, queue, prepared, samplesMemory, blocks,
                   device, startedN, releasedTwice, oobAccess>>
    /\ UNCHANGED histVars
    /\ UNCHANGED <<tableVars, mixVars>>

\* blockWritten.wait(lock): releases the mutex and blocks
WorkerWait ==
    /\ ~crashed /\ wpc = "wait"
    /\ wpc' = "waiting"
    /\ writingBlock' = "free"
    /\ UNCHANGED lifeVars
    /\ UNCHANGED <<audioThreadActive, fillPos, currentBlock, freeBlocks,
                   blockCount, cpc, queue, prepared, samplesMemory, blocks,
                   device, startedN, releasedTwice, oobAccess>>
    /\ UNCHANGED histVars
    /\ UNCHANGED <<tableVars, mixVars>>

\* condition_variable::wait(lock) may also unblock spuriously
WorkerSpuriousWake ==
    /\ ~crashed /\ wpc = "waiting"
    /\ wpc' = "relock"
    /\ UNCHANGED lifeVars
    /\ UNCHANGED <<audioThreadActive, fillPos, currentBlock, freeBlocks,
                   blockCount, writingBlock, cpc, queue, prepared,
                   samplesMemory, blocks, device, startedN, releasedTwice,
                   oobAccess>>
    /\ UNCHANGED histVars
    /\ UNCHANGED <<tableVars, mixVars>>

\* freeBlocks--;
WorkerClaim ==
    /\ ~crashed /\ wpc = "dec"
    /\ freeBlocks' = freeBlocks - 1
    /\ wpc' = "unprep"
    /\ UNCHANGED lifeVars
    /\ UNCHANGED <<audioThreadActive, fillPos, currentBlock, blockCount,
                   writingBlock, cpc, queue, prepared, samplesMemory, blocks,
                   device, startedN, releasedTwice, oobAccess>>
    /\ UNCHANGED histVars
    /\ UNCHANGED <<tableVars, mixVars>>

\* if (blocks[currentBlock].dwFlags & WHDR_PREPARED) waveOutUnprepareHeader;
\* a currentBlock outside the array reads past it: the process aborts or
\* goes on with what it read
WorkerUnprepare ==
    /\ ~crashed /\ wpc = "unprep"
    /\ IF InRing(currentBlock, blockCount)
       THEN /\ prepared' = prepared \ {currentBlock}
            /\ UNCHANGED <<oobAccess, crashed>>
       ELSE /\ oobAccess' = TRUE
            /\ crashed' \in BOOLEAN
            /\ UNCHANGED prepared
    /\ fillPos' = 0
    /\ wpc' = "fill"
    /\ UNCHANGED lifeNoCrash
    /\ UNCHANGED <<audioThreadActive, currentBlock, freeBlocks, blockCount,
                   writingBlock, cpc, queue, samplesMemory, blocks, device,
                   startedN, releasedTwice>>
    /\ UNCHANGED histVars
    /\ UNCHANGED <<tableVars, mixVars>>

\* one frame: samplesMemory[sampleOffset + i + c] = ... for every channel
WorkerFill ==
    /\ ~crashed /\ wpc = "fill"
    /\ fillPos < FramesPerBlock
    /\ fillPos' = fillPos + 1
    /\ UNCHANGED lifeVars
    /\ UNCHANGED <<audioThreadActive, wpc, currentBlock, freeBlocks,
                   blockCount, writingBlock, cpc, queue, prepared,
                   samplesMemory, blocks, device, startedN, releasedTwice,
                   oobAccess>>
    /\ UNCHANGED histVars
    /\ UNCHANGED <<tableVars, mixVars>>

\* waveOutPrepareHeader; waveOutWrite; currentBlock++; currentBlock %= ...
\* (a header outside the array is not one the device accepts)
WorkerSubmit ==
    /\ ~crashed /\ wpc = "fill"
    /\ fillPos = FramesPerBlock
    /\ IF InRing(currentBlock, blockCount)
       THEN /\ prepared' = prepared \cup {currentBlock}
            /\ queue' = Append(queue, currentBlock)
            /\ lastSubmitted' = currentBlock
       ELSE UNCHANGED <<prepared, queue, lastSubmitted>>
    /\ currentBlock' = NextBlock(currentBlock, blockCount)
    /\ wpc' = "top"
    /\ UNCHANGED lifeVars
    /\ UNCHANGED <<audioThreadActive, fillPos, freeBlocks, blockCount,
                   writingBlock, cpc, samplesMemory, blocks, device,
                   startedN, releasedTwice, oobAccess>>
    /\ UNCHANGED preStart
    /\ UNCHANGED <<tableVars, mixVars>>

\* ------------------------------------------------- device and waveOutProc -
\* the device finishes the oldest queued block and calls waveOutProc with
\* WOM_DONE on the driver thread
DeviceComplete ==
    /\ ~crashed /\ device = "open"
    /\ queue # <<>>
    /\ cpc = "idle"
    /\ queue' = Tail(queue)
    /\ cpc' = "inc"
    /\ UNCHANGED lifeVars
    /\ UNCHANGED <<audioThreadActive, wpc, fillPos, currentBlock, freeBlocks,
                   blockCount, writingBlock, prepared, samplesMemory, blocks,
                   device, startedN, releasedTwice, oobAccess>>
    /\ UNCHANGED histVars
    /\ UNCHANGED <<tableVars, mixVars>>

\* freeBlocks++;
CallbackIncrement ==
    /\ ~crashed /\ cpc = "inc"
    /\ freeBlocks' = freeBlocks + 1
    /\ cpc' = "notify"
    /\ UNCHANGED lifeVars
    /\ UNCHANGED <<audioThreadActive, wpc, fillPos, currentBlock, blockCount,
                   writingBlock, queue, prepared, samplesMemory, blocks,
                   device, startedN, releasedTwice, oobAccess>>
    /\ UNCHANGED histVars
    /\ UNCHANGED <<tableVars, mixVars>>

\* (mutant) waveOutProc notifies without taking the mutex writingBlock
CallbackNotify_Unlocked ==
    /\ ~crashed /\ cpc = "notify"
    /\ wpc' = NotifyBlockWritten(wpc)
    /\ cpc' = "idle"
    /\ UNCHANGED lifeVars
    /\ UNCHANGED <<audioThreadActive, fillPos, currentBlock, freeBlocks,
                   blockCount, writingBlock, queue, prepared, samplesMemory,
                   blocks, device, startedN, releasedTwice, oobAccess>>
    /\ UNCHANGED histVars
    /\ UNCHANGED <<tableVars, mixVars>>

\* std::unique_lock<std::mutex> lock(writingBlock); blockWritten.notify_one();
CallbackNotify ==
    /\ ~crashed /\ cpc = "notify"
    /\ writingBlock = "free"
    /\ wpc' = NotifyBlockWritten(wpc)
    /\ cpc' = "idle"
    /\ UNCHANGED lifeVars
    /\ UNCHANGED <<audioThreadActive, fillPos, currentBlock, freeBlocks,
                   blockCount, writingBlock, queue, prepared, samplesMemory,
                   blocks, device, startedN, releasedTwice, oobAccess>>
    /\ UNCHANGED histVars
    /\ UNCHANGED <<tableVars, mixVars>>

\* ----------------------------------------------- playback instance table --
\* clips in audioClips (valid ids are 0..NumClips-1)
NumClips == 1
\* largest AudioClip::length of a loaded clip, in frames
ClipLength == 2
\* largest channel count of a clip and of the engine
MaxChannels == 2
\* cap on the instances playing at once
MaxInstances == 2

ClipIds == (0 - 1)..NumClips

\* return -1 from unsigned int LoadAudioClip: 0xFFFFFFFF as two 16-bit halves
LoadFailed == [hi |-> 65535, lo |-> 65535]

\* audioClips.size() - 1 as unsigned int
Handle(index) == [hi |-> index \div 65536, lo |-> index % 65536]

\* an unsigned int passed as the parameter int id
ToInt(u) ==
    IF u.hi >= 32768 THEN (u.hi - 65536) * 65536 + u.lo
    ELSE u.hi * 65536 + u.lo

\* the ids the playback functions are called with
PlayIds == ClipIds \cup {ToInt(LoadFailed)}

\* (long)((float)nSamplesPerSec * timeStep) with timeStep = 1.0f / samplesPerSec
\* at the clip's rate
CursorStep == 1

MAXSHORT == 32767

\* the data chunks loaded: silence, 1, 2, 3, ..., every sample the largest
\* short, every sample the smallest short
Patterns == {"zero", "ramp", "loud", "floor"}

\* short sample read from the data chunk at index idx
FileSample(pattern, idx) ==
    CASE pattern = "zero"  -> 0
      [] pattern = "ramp"  -> idx + 1
      [] pattern = "loud"  -> MAXSHORT
      [] pattern = "floor" -> 0 - (MAXSHORT + 1)

\* amplitudes are counted in halves of 1.0f / MAXSHORT
FullScale == 2 * MAXSHORT

\* (float)sample / (float)MAXSHORT
Normalize(sample) == 2 * sample

\* an AudioClip that loaded (isValid) from a whole file: its data chunk,
\* format.nChannels, length = subchunkSize / (nChannels * 2) and the number
\* of samples fread delivered
ClipsOf(pats, chans) ==
    {[pattern |-> p, nChannels |-> c, length |-> l, present |-> l * c] :
        p \in pats, c \in chans, l \in 0..ClipLength}

\* audioClips[clip.audioClipID]
ClipOf(clip) == audioClips[clip.audioClipID + 1]

\* audioClips[...].data[idx]: short sample = 0 stays where fread delivered
\* nothing
ClipData(ac, idx) ==
    IF ac.present <= idx /\ idx < ac.length * ac.nChannels THEN Normalize(0)
    ELSE Normalize(FileSample(ac.pattern, idx))

\* CurrentlyPlayingClip(int id, bool looped)
NewPlayingClip(id, loop) ==
    [audioClipID |-> id, samplePosition |-> 0, looped |-> loop,
     paused |-> FALSE, finished |-> FALSE]

\* CurrentlyPlayingClip::Restart
Restart(clip) ==
    [clip EXCEPT !.samplePosition = 0, !.paused = FALSE, !.finished = FALSE]

SweepClip_NoBoundary(clip) ==
    IF clip.paused THEN clip
    ELSE [clip EXCEPT !.samplePosition = @ + CursorStep]

\* the body of the sweep of GetMixerOutput for one instance
SweepClip(clip) ==
    IF clip.paused THEN clip
    ELSE LET moved == [clip EXCEPT !.samplePosition = @ + CursorStep]
         IN  IF moved.samplePosition < ClipOf(clip).length THEN moved
             ELSE IF moved.looped THEN Restart(moved)
             ELSE [moved EXCEPT !.finished = TRUE]

RemoveFinished_None(list) == list

\* currentlyPlayingClips.remove_if(... clip.finished ...)
RemoveFinished(list) == SelectSeq(list, LAMBDA clip : ~clip.finished)

mixRest == <<mixpc, mixIdx>>
ctlRest == <<ctlpc, ctlIdx, ctlId, ctlLoop>>

\* the audio thread enters GetMixerOutput
GetMixerOutputEnter ==
    /\ ~tcrashed /\ mixpc = "idle"
    /\ mixpc' = "sweep"
    /\ mixIdx' = 1
    /\ UNCHANGED <<currentlyPlayingClips, tcrashed>>
    /\ UNCHANGED ctlRest
    /\ UNCHANGED <<lifeVars, audioVars, histVars, mixVars>>

\* for (auto &clip : currentlyPlayingClips) { ... }, one instance
GetMixerOutputSweep ==
    /\ ~tcrashed /\ mixpc = "sweep"
    /\ IF mixIdx <= Len(currentlyPlayingClips)
       THEN /\ currentlyPlayingClips' =
                  [currentlyPlayingClips EXCEPT ![mixIdx] = SweepClip(@)]
            /\ mixIdx' = mixIdx + 1
            /\ UNCHANGED mixpc
       ELSE /\ mixpc' = "remove"
            /\ UNCHANGED <<currentlyPlayingClips, mixIdx>>
    /\ UNCHANGED tcrashed
    /\ UNCHANGED ctlRest
    /\ UNCHANGED <<lifeVars, audioVars, histVars, mixVars>>

\* the control-path calls that walk the list
WalkOps == {"PauseAudio", "PauseAllAudio", "RestartAudio", "RestartAllAudio",
            "StopAudio"}

\* remove_if, the user hooks and the return; erasing nodes another thread is
\* walking leaves it a dangling iterator
GetMixerOutputRemove ==
    /\ ~tcrashed /\ mixpc = "remove"
    /\ currentlyPlayingClips' = RemoveFinished(currentlyPlayingClips)
    /\ tcrashed' \in (IF /\ ctlpc \in WalkOps
                         /\ Len(RemoveFinished(currentlyPlayingClips))
                              < Len(currentlyPlayingClips)
                      THEN BOOLEAN ELSE {FALSE})
    /\ mixpc' = "idle"
    /\ UNCHANGED mixIdx
    /\ UNCHANGED ctlRest
    /\ UNCHANGED <<lifeVars, audioVars, histVars, mixVars>>

CtlOps == WalkOps \cup {"PlayAudioClip", "StopAllAudio"}

\* the game thread calls one of the playback functions
ControlCall ==
    /\ ~tcrashed /\ ctlpc = "idle"
    /\ \E op \in CtlOps, id \in ClipIds, loop \in BOOLEAN :
         /\ op = "PlayAudioClip" => Len(currentlyPlayingClips) < MaxInstances
         /\ ctlpc' = op
         /\ ctlId' = id
         /\ ctlLoop' = loop
    /\ ctlIdx' = 1
    /\ UNCHANGED <<currentlyPlayingClips, tcrashed>>
    /\ UNCHANGED mixRest
    /\ UNCHANGED <<lifeVars, audioVars, histVars, mixVars>>

\* if (id < 0 || id >= (int)audioClips.size()) return; ... push_back
PlayAudioClip ==
    /\ ~tcrashed /\ ctlpc = "PlayAudioClip"
    /\ currentlyPlayingClips' =
          IF ctlId < 0 \/ ctlId >= Len(audioClips)
          THEN currentlyPlayingClips
          ELSE Append(currentlyPlayingClips, NewPlayingClip(ctlId, ctlLoop))
    /\ ctlpc' = "idle"
    /\ UNCHANGED <<ctlIdx, ctlId, ctlLoop, tcrashed>>
    /\ UNCHANGED mixRest
    /\ UNCHANGED <<lifeVars, audioVars, histVars, mixVars>>

TogglePause(clip) == [clip EXCEPT !.paused = ~@]

MarkFinished(clip) == [clip EXCEPT !.finished = TRUE]

\* if (clip.audioClipID == id) clip.paused = !clip.paused; one instance
PauseAudio ==
    /\ ~tcrashed /\ ctlpc = "PauseAudio"
    /\ IF ctlIdx <= Len(currentlyPlayingClips)
       THEN /\ currentlyPlayingClips' =
                  [currentlyPlayingClips EXCEPT
                      ![ctlIdx] = IF @.audioClipID = ctlId
                               THEN TogglePause(@) ELSE @]
            /\ ctlIdx' = ctlIdx + 1
            /\ UNCHANGED ctlpc
       ELSE /\ ctlpc' = "idle"
            /\ UNCHANGED <<currentlyPlayingClips, ctlIdx>>
    /\ UNCHANGED <<ctlId, ctlLoop, tcrashed>>
    /\ UNCHANGED mixRest
    /\ UNCHANGED <<lifeVars, audioVars, histVars, mixVars>>

\* clip.paused = !clip.paused; one instance
PauseAllAudio ==
    /\ ~tcrashed /\ ctlpc = "PauseAllAudio"
    /\ IF ctlIdx <= Len(currentlyPlayingClips)
       THEN /\ currentlyPlayingClips' =
                  [currentlyPlayingClips EXCEPT
                      ![ctlIdx] = TogglePause(@)]
            /\ ctlIdx' = ctlIdx + 1
            /\ UNCHANGED ctlpc
       ELSE /\ ctlpc' = "idle"
            /\ UNCHANGED <<currentlyPlayingClips, ctlIdx>>
    /\ UNCHANGED <<ctlId, ctlLoop, tcrashed>>
    /\ UNCHANGED mixRest
    /\ UNCHANGED <<lifeVars, audioVars, histVars, mixVars>>

\* if (clip.audioClipID == id) clip.Restart(); one instance
RestartAudio ==
    /\ ~tcrashed /\ ctlpc = "RestartAudio"
    /\ IF ctlIdx <= Len(currentlyPlayingClips)
       THEN /\ currentlyPlayingClips' =
                  [currentlyPlayingClips EXCEPT
                      ![ctlIdx] = IF @.audioClipID = ctlId
                               THEN Restart(@) ELSE @]
            /\ ctlIdx' = ctlIdx + 1
            /\ UNCHANGED ctlpc
       ELSE /\ ctlpc' = "idle"
            /\ UNCHANGED <<currentlyPlayingClips, ctlIdx>>
    /\ UNCHANGED <<ctlId, ctlLoop, tcrashed>>
    /\ UNCHANGED mixRest
    /\ UNCHANGED <<lifeVars, audioVars, histVars, mixVars>>

\* clip.Restart(); one instance
RestartAllAudio ==
    /\ ~tcrashed /\ ctlpc = "RestartAllAudio"
    /\ IF ctlIdx <= Len(currentlyPlayingClips)
       THEN /\ currentlyPlayingClips' =
                  [currentlyPlayingClips EXCEPT
                      ![ctlIdx] = Restart(@)]
            /\ ctlIdx' = ctlIdx + 1
            /\ UNCHANGED ctlpc
       ELSE /\ ctlpc' = "idle"
            /\ UNCHANGED <<currentlyPlayingClips, ctlIdx>>
    /\ UNCHANGED <<ctlId, ctlLoop, tcrashed>>
    /\ UNCHANGED mixRest
    /\ UNCHANGED <<lifeVars, audioVars, histVars, mixVars>>

\* if (clip.audioClipID == id) clip.finished = true; one instance
StopAudio ==
    /\ ~tcrashed /\ ctlpc = "StopAudio"
    /\ IF ctlIdx <= Len(currentlyPlayingClips)
       THEN /\ currentlyPlayingClips' =
                  [currentlyPlayingClips EXCEPT
                      ![ctlIdx] = IF @.audioClipID = ctlId
                               THEN MarkFinished(@) ELSE @]
            /\ ctlIdx' = ctlIdx + 1
            /\ UNCHANGED ctlpc
       ELSE /\ ctlpc' = "idle"
            /\ UNCHANGED <<currentlyPlayingClips, ctlIdx>>
    /\ UNCHANGED <<ctlId, ctlLoop, tcrashed>>
    /\ UNCHANGED mixRest
    /\ UNCHANGED <<lifeVars, audioVars, histVars, mixVars>>

\* currentlyPlayingClips.clear(); waveOutReset(device); clearing the list
\* under a running sweep leaves the sweep a dangling iterator
StopAllAudio ==
    /\ ~tcrashed /\ ctlpc = "StopAllAudio"
    /\ currentlyPlayingClips' = <<>>
    /\ tcrashed' \in (IF mixpc = "sweep" /\ currentlyPlayingClips # <<>>
                      THEN BOOLEAN ELSE {FALSE})
    /\ ctlpc' = "idle"
    /\ UNCHANGED <<ctlIdx, ctlId, ctlLoop>>
    /\ UNCHANGED mixRest
    /\ UNCHANGED <<lifeVars, audioVars, histVars, mixVars>>

\* ------------------------------------------------------ GetMixerOutput ---
\* what the sweep adds to mixedSample for one instance:
\* data[samplePosition * nChannels + channel] at the advanced cursor
Contribution(clip, chan) ==
    IF clip.paused THEN 0
    ELSE LET pos == clip.samplePosition + CursorStep
         IN  IF pos < ClipOf(clip).length
             THEN ClipData(ClipOf(clip), pos * ClipOf(clip).nChannels + chan)
             ELSE 0

RECURSIVE MixedSample(_, _)

MixedSample_FirstOnly(list, chan) ==
    IF list = <<>> THEN 0 ELSE Contribution(Head(list), chan)

\* mixedSample after the sweep
MixedSample(list, chan) ==
    IF list = <<>> THEN 0
    ELSE Contribution(Head(list), chan) + MixedSample(Tail(list), chan)

\* the table after the sweep and remove_if
SweptTable(list) ==
    RemoveFinished([i \in DOMAIN list |-> SweepClip(list[i])])

\* GetMixerOutput(timeStep, channel) on a table, with onUserSoundSample
\* returning hook and onUserSoundFilter returning its argument
GetMixerOutput(list, chan, hook) ==
    [clips |-> SweptTable(list), mixed |-> MixedSample(list, chan) + hook]

\* ----------------------------------------------------------- AudioThread --
Min(a, b) == IF a < b THEN a ELSE b
Max(a, b) == IF a > b THEN a ELSE b

Clip_None(value, max) == value

\* auto clip = [](float value, float max)
Clip(value, max) ==
    IF value >= 0 THEN Min(value, max) ELSE Max(value, 0 - max)

\* conversion of a float to an integer type: the fraction is discarded
Truncate(twice) ==
    IF twice >= 0 THEN twice \div 2 ELSE 0 - ((0 - twice) \div 2)

\* the low 16 bits of an integer as a short
ToShort(n) == ((n + 32768) % 65536) - 32768

\* (short)(clip(GetMixerOutput(timeStep, c), 1.0f) * (float)MAXSHORT)
Quantize(mixed) == ToShort(Truncate(Clip(mixed, FullScale)))

\* ------------------------------------------------------------ float ------
\* a float is m * 2^e with 2^23 <= m < 2^24, or zero
\* 1.0f / 44100
TimeStep == [m |-> 12466118, e |-> 0 - 39]

\* m * 2^e with m < 2^25 brought back to 24 bits; half is 0, 1 or 2 as the
\* discarded part is below, at or above half a unit in the last place
RoundFloat(m, e, half) ==
    LET up == half = 2 \/ (half = 1 /\ m % 2 = 1)
        r  == IF up THEN m + 1 ELSE m
    IN  IF r = 16777216 THEN [m |-> 8388608, e |-> e + 1]
        ELSE [m |-> r, e |-> e]

\* 0, 1 or 2 as rem / unit is below, equal to or above one half
HalfOf(rem, unit) ==
    IF 2 * rem < unit THEN 0 ELSE IF 2 * rem = unit THEN 1 ELSE 2

\* a + b for floats a >= b > 0, rounded to nearest, ties to even
FloatAddOrdered(a, b) ==
    LET d == a.e - b.e
    IN  IF d > 25 THEN a
        ELSE LET unit == 2 ^ d
                 sum  == a.m + (b.m \div unit)
                 rem  == b.m % unit
             IN  IF sum < 16777216
                 THEN RoundFloat(sum, a.e, HalfOf(rem, unit))
                 ELSE RoundFloat(sum \div 2, a.e + 1,
                                 HalfOf((sum % 2) * unit + rem, 2 * unit))

\* a < b for floats that are not negative
FloatLess(a, b) ==
    IF a.m = 0 THEN b.m > 0
    ELSE b.m > 0 /\ (a.e < b.e \/ (a.e = b.e /\ a.m < b.m))

\* globalTime + timeStep
FloatAdd(a, b) ==
    IF a.m = 0 THEN b
    ELSE IF b.m = 0 THEN a
    ELSE IF FloatLess(a, b) THEN FloatAddOrdered(b, a)
    ELSE FloatAddOrdered(a, b)

\* a + b is a float: nothing was rounded away
FloatAddExact(a, b) ==
    \/ a.m = 0 \/ b.m = 0
    \/ LET hi == IF FloatLess(a, b) THEN b ELSE a
           lo == IF FloatLess(a, b) THEN a ELSE b
           d  == hi.e - lo.e
       IN  /\ d <= 25
           /\ lo.m % (2 ^ d) = 0
           /\ LET sum == hi.m + (lo.m \div (2 ^ d))
              IN  sum < 16777216 \/ sum % 2 = 0

\* ------------------------------------------------------- specification ----
Next ==
    \/ OnStartReturn
    \/ LoopTest
    \/ OnUpdateReturn
    \/ CheckRunning
    \/ OnDestroyReturn
    \/ Teardown
    \/ SignalFinished
    \/ HandlerArrive
    \/ HandlerWait
    \/ HandlerSpuriousWake
    \/ HandlerReturn
    \/ UserStartAudio
    \/ UserDestroyAudio
    \/ StartCheck
    \/ StartInstall
    \/ StartNotify
    \/ DestroySignal
    \/ DestroyJoin
    \/ DestroyReset
    \/ DestroyFree
    \/ DestroyReturn
    \/ WorkerTop
    \/ WorkerCheck
    \/ WorkerLock
    \/ WorkerRecheck
    \/ WorkerWait
    \/ WorkerSpuriousWake
    \/ WorkerClaim
    \/ WorkerUnprepare
    \/ WorkerFill
    \/ WorkerSubmit
    \/ DeviceComplete
    \/ CallbackIncrement
    \/ CallbackNotify

Spec == Init /\ [][Next]_vars

\* the playback instance table under the control path and the mixer
TableNext ==
    \/ GetMixerOutputEnter
    \/ GetMixerOutputSweep
    \/ GetMixerOutputRemove
    \/ ControlCall
    \/ PlayAudioClip
    \/ PauseAudio
    \/ PauseAllAudio
    \/ RestartAudio
    \/ RestartAllAudio
    \/ StopAudio
    \/ StopAllAudio

\* The engine with NumClips clips loaded and nothing playing.
TableInit ==
    /\ EngineInit
    /\ audioClips \in [1..NumClips -> ClipsOf({"zero"}, {1})]
    /\ channels = 1 /\ globalTime = FloatZero
    /\ mixLoop = FALSE /\ hookSample = 0
    /\ MixIdle

TableSpec == TableInit /\ [][TableNext]_vars

\* ------------------------------------------- the fill loop on its own ----
\* frames the fill loop writes after the instances were played
MaxTicks == 4

\* what onUserSoundSample returns: 0.0f by default, or a fraction of a step
HookSamples == {0, 1, 0 - 3}

\* globalTime when the instances are played: 0.0f, or what 22371432 frames
\* at 44100 Hz have accumulated (512 - 2^-15)
ClockStarts == {FloatZero, [m |-> 16777215, e |-> 0 - 15]}

\* The engine running at the channel count of its one loaded clip, the
\* worker at the top of a block, nothing playing.
MixInit ==
    /\ EngineInit
    /\ audioClips \in {<<ac>> : ac \in ClipsOf(Patterns, 1..MaxChannels)}
    /\ channels = audioClips[1].nChannels
    /\ globalTime \in ClockStarts
    /\ mixLoop \in BOOLEAN
    /\ hookSample \in HookSamples
    /\ MixIdle

fillRest == <<lifeVars, audioVars, histVars, mixpc, mixIdx, ctlpc, ctlIdx,
              ctlId, ctlLoop, tcrashed, audioClips, loadVars, spriteVars>>

\* PlayAudioClip(0, mixLoop) before the next frame is mixed
PlayBeforeFill ==
    /\ ticks = 0 /\ mixChan = 0 /\ channels > 0
    /\ played < MaxInstances
    /\ currentlyPlayingClips' =
          Append(currentlyPlayingClips, NewPlayingClip(0, mixLoop))
    /\ refClips' = <<NewPlayingClip(0, mixLoop)>>
    /\ played' = played + 1
    /\ lastCall' = [op |-> "PlayAudioClip", id |-> 0]
    /\ UNCHANGED <<channels, globalTime, mixChan, ticks, mixLoop, hookSample,
                   lastFrame, lastChan, lastMixed, lastWritten, refMixed>>
    /\ UNCHANGED fillRest

\* one pass of the inner loop: samplesMemory[sampleOffset + i + c] = ...;
\* after the last channel globalTime = globalTime + timeStep
FillSample ==
    /\ channels > 0 /\ ticks < MaxTicks
    /\ LET out == GetMixerOutput(currentlyPlayingClips, mixChan, hookSample)
           ref == GetMixerOutput(refClips, mixChan, hookSample)
       IN  /\ currentlyPlayingClips' = out.clips
           /\ lastMixed' = out.mixed
           /\ lastWritten' = Quantize(out.mixed)
           /\ refClips' = ref.clips
           /\ refMixed' = ref.mixed
    /\ lastFrame' = ticks /\ lastChan' = mixChan
    /\ IF mixChan + 1 < channels
       THEN /\ mixChan' = mixChan + 1
            /\ UNCHANGED <<ticks, globalTime>>
       ELSE /\ mixChan' = 0
            /\ ticks' = ticks + 1
            /\ globalTime' = FloatAdd(globalTime, TimeStep)
    /\ lastCall' = [op |-> "GetMixerOutput", id |-> 0]
    /\ UNCHANGED <<channels, played, mixLoop, hookSample>>
    /\ UNCHANGED fillRest

\* DestroyAudio between two blocks: the parameters are zeroed and
\* globalTime = 0.0f
ClockReset ==
    /\ channels > 0 /\ mixChan = 0
    /\ channels' = 0
    /\ globalTime' = FloatZero
    /\ lastCall' = [op |-> "DestroyAudio", id |-> 0]
    /\ UNCHANGED <<mixChan, ticks, played, mixLoop, hookSample, lastFrame,
                   lastChan, lastMixed, lastWritten, refClips, refMixed>>
    /\ UNCHANGED currentlyPlayingClips
    /\ UNCHANGED fillRest

MixNext ==
    \/ PlayBeforeFill
    \/ FillSample
    \/ ClockReset

MixSpec == MixInit /\ [][MixNext]_vars

\* a GetMixerOutput call has returned
Mixed == ticks > 0 \/ mixChan > 0

\* ------------------------------------- the playback calls, one at a time --
\* f applied to the instances of the clips in ids
ForClips(list, ids, f(_)) ==
    [i \in DOMAIN list |->
        IF list[i].audioClipID \in ids THEN f(list[i]) ELSE list[i]]

callRest == <<lifeVars, audioVars, histVars, mixpc, mixIdx, ctlpc, ctlIdx,
              ctlId, ctlLoop, tcrashed, audioClips, fillVars, loadVars,
              spriteVars>>

CallPlayAudioClip_NoCheck ==
    /\ Len(currentlyPlayingClips) < MaxInstances
    /\ \E id \in PlayIds, loop \in BOOLEAN :
         /\ currentlyPlayingClips' =
               Append(currentlyPlayingClips, NewPlayingClip(id, loop))
         /\ lastCall' = [op |-> "PlayAudioClip", id |-> id]
    /\ UNCHANGED callRest

\* PlayAudioClip(id, loop)
CallPlayAudioClip ==
    /\ Len(currentlyPlayingClips) < MaxInstances
    /\ \E id \in PlayIds, loop \in BOOLEAN :
         /\ currentlyPlayingClips' =
               IF id < 0 \/ id >= Len(audioClips)
               THEN currentlyPlayingClips
               ELSE Append(currentlyPlayingClips, NewPlayingClip(id, loop))
         /\ lastCall' = [op |-> "PlayAudioClip", id |-> id]
    /\ UNCHANGED callRest

\* PauseAudio(id)
CallPauseAudio ==
    /\ \E id \in ClipIds :
         /\ currentlyPlayingClips' =
               ForClips(currentlyPlayingClips, {id}, TogglePause)
         /\ lastCall' = [op |-> "PauseAudio", id |-> id]
    /\ UNCHANGED callRest

\* PauseAllAudio()
CallPauseAllAudio ==
    /\ currentlyPlayingClips' =
          ForClips(currentlyPlayingClips, ClipIds, TogglePause)
    /\ lastCall' = [op |-> "PauseAllAudio", id |-> 0]
    /\ UNCHANGED callRest

\* RestartAudio(id)
CallRestartAudio ==
    /\ \E id \in ClipIds :
         /\ currentlyPlayingClips' =
               ForClips(currentlyPlayingClips, {id}, Restart)
         /\ lastCall' = [op |-> "RestartAudio", id |-> id]
    /\ UNCHANGED callRest

\* RestartAllAudio()
CallRestartAllAudio ==
    /\ currentlyPlayingClips' =
          ForClips(currentlyPlayingClips, ClipIds, Restart)
    /\ lastCall' = [op |-> "RestartAllAudio", id |-> 0]
    /\ UNCHANGED callRest

\* StopAudio(id)
CallStopAudio ==
    /\ \E id \in ClipIds :
         /\ currentlyPlayingClips' =
               ForClips(currentlyPlayingClips, {id}, MarkFinished)
         /\ lastCall' = [op |-> "StopAudio", id |-> id]
    /\ UNCHANGED callRest

\* StopAllAudio(): currentlyPlayingClips.clear()
CallStopAllAudio ==
    /\ currentlyPlayingClips' = <<>>
    /\ lastCall' = [op |-> "StopAllAudio", id |-> 0]
    /\ UNCHANGED callRest

\* GetMixerOutput(timeStep, channel): the sweep and remove_if
CallGetMixerOutput ==
    /\ currentlyPlayingClips' = SweptTable(currentlyPlayingClips)
    /\ lastCall' = [op |-> "GetMixerOutput", id |-> 0]
    /\ UNCHANGED callRest

CallNext ==
    \/ CallPlayAudioClip
    \/ CallPauseAudio
    \/ CallPauseAllAudio
    \/ CallRestartAudio
    \/ CallRestartAllAudio
    \/ CallStopAudio
    \/ CallStopAllAudio
    \/ CallGetMixerOutput

CallSpec == TableInit /\ [][CallNext]_vars

\* ------------------------------------------------------------- typing ----
TypeOK ==
    /\ gpc \in {"onstart", "loop", "update", "check", "ondestroy",
                "teardown", "notify", "done", "s_check", "s_install",
                "s_notify", "d_signal", "d_join", "d_reset", "d_free",
                "d_ret"}
    /\ hpc \in {"idle", "lock", "waiting", "woken", "returned"}
    /\ wpc \in {"none", "top", "check1", "lock", "check2", "wait",
                "waiting", "relock", "dec", "unprep", "fill", "exited"}
    /\ cpc \in {"idle", "inc", "notify"}
    /\ writingBlock \in {"free", "worker"}
    /\ fillPos \in 0..FramesPerBlock
    /\ blockCount \in 0..MaxBlocks
    /\ userCalls \in 0..MaxUserCalls
    /\ Len(currentlyPlayingClips) <= MaxInstances
    /\ \A i \in DOMAIN currentlyPlayingClips :
          currentlyPlayingClips[i].samplePosition \in 0..ClipLength
    /\ lastSubmitted \in (0 - 1)..(MaxBlocks - 1)
    /\ Len(audioClips) <= NumClips + 1
    /\ channels \in 0..MaxChannels
    /\ mixChan \in 0..MaxChannels
    /\ played \in 0..MaxInstances
    /\ lastWritten \in (0 - (MAXSHORT + 1))..MAXSHORT

\* ------------------------------------------------------ block scheduler ---
\* C1: after StartAudio(blockCount = N), with a device that calls waveOutProc
\* once for every block written to it, the free-block counter stays within
\* 0..N in every state of every interleaving of AudioThread and waveOutProc.
C1_FreeBlocksInRange == 0 <= freeBlocks /\ freeBlocks <= startedN

\* every block of the run has come back after the worker had submitted some
C1_Witness ==
    /\ wpc \notin {"none", "exited"}
    /\ startedN = MaxBlocks
    /\ freeBlocks = startedN
    /\ prepared # {}

\* C2: with a device that completes blocks in the order they were written,
\* the block the worker is writing (from the claim of the block to its
\* submission) is never one that is queued in the device.
C2_WritesOnlyFreeBlock == wpc = "fill" => currentBlock \notin Range(queue)

\* the worker is rewriting a block that went through the device before,
\* while another block is still queued
C2_Witness ==
    /\ wpc = "fill" /\ fillPos > 0
    /\ queue # <<>>
    /\ InRing(currentBlock, blockCount)

\* C3: the worker is never blocked on blockWritten with freeBlocks > 0 unless
\* the callback that made the counter positive is still about to notify it:
\* no completion's wakeup is lost between the worker's test and its wait.
C3_NoMissedWakeup ==
    (wpc = "waiting" /\ freeBlocks > 0) => cpc = "notify"

\* the callback has incremented the counter while the worker is blocked
C3_Witness == wpc = "waiting" /\ freeBlocks > 0 /\ cpc = "notify"

\* --------------------------------------------------- shutdown rendezvous --
\* C5: when a close request has arrived before shutdown began, the game thread never calls
\* finished.notify_one() before CloseHandler has started its wait on finished.
C5_SignalOnlyAfterWaitStarted ==
    [][(signalCount' = signalCount + 1 /\ requestEarly)
          => hpc \in {"waiting", "woken", "returned"}]_vars

\* C6: a close request that arrives before shutdown has begun, with OnDestroy
\* accepting: once the game thread has left its loop it has signalled exactly
\* once and CloseHandler is not left blocked on finished.
C6_HandlerResumes ==
    (requestEarly /\ destroyAccepted /\ gpc = "done")
        => (signalCount = 1 /\ hpc # "waiting")

\* C7: CloseHandler called with CTRL_CLOSE_EVENT has not returned unless
\* OnDestroy returned true and the teardown is complete.
C7_HandlerBlocksUntilTeardown ==
    (hevt = "CLOSE" /\ hpc = "returned")
        => (destroyAccepted /\ teardownDone)

\* ------------------------------------------------------------ stopping ---
\* C8: DestroyAudio called while the worker is filling a block resets, closes
\* and frees only after the worker was joined, and when it returns the device
\* is closed with nothing queued, the sample and header memory are freed and
\* no header is left prepared.
C8_StopOrdering ==
    midBlockStop =>
        /\ gpc \in {"d_free", "d_ret"} => wpc = "none"
        /\ gpc = "d_ret" =>
              /\ device # "open" /\ queue = <<>>
              /\ samplesMemory # "live" /\ blocks # "live"
              /\ prepared = {}

\* C9: no sample buffer, header array or device handle is released twice.
C9_ReleasedAtMostOnce == releasedTwice = {}

\* the steps of the program that carry a stop forward: DestroyAudio itself,
\* the worker (without a spurious wakeup) and a callback already delivered
StopProgress ==
    \/ DestroySignal \/ DestroyJoin \/ DestroyReset \/ DestroyFree
    \/ DestroyReturn
    \/ WorkerTop \/ WorkerCheck \/ WorkerLock \/ WorkerRecheck \/ WorkerWait
    \/ WorkerClaim \/ WorkerUnprepare \/ WorkerFill \/ WorkerSubmit
    \/ CallbackIncrement \/ CallbackNotify

\* C10: while DestroyAudio is in progress the program can always take a step
\* towards its return without the device completing another block.
C10_StopIndependentOfDevice ==
    (gpc \in {"d_signal", "d_join", "d_reset", "d_free", "d_ret"} /\ ~crashed)
        => ENABLED StopProgress

C11_FailedStartKeepsState ==
    [][(gpc = "s_install" /\ gpc' \in Hooks)
          => /\ ~audioThreadActive' /\ wpc' = "none"
             /\ AudioState' = preStart.audio]_vars

StopPcs == {"d_signal", "d_join", "d_reset", "d_free", "d_ret"}

\* C12: StartAudio installs its parameters, opens the device and spawns the
\* worker only when no worker exists, the device is not open and no block
\* memory is live; while it stops a running engine the block count is the
\* old one or zero.
C12_StopBeforeRestart ==
    /\ gpc = "s_install" =>
          /\ wpc = "none" /\ ~audioThreadActive
          /\ device # "open" /\ queue = <<>>
          /\ samplesMemory # "live" /\ blocks # "live"
    /\ (gpc \in StopPcs /\ dret = "s_install") =>
          /\ preStart.active
          /\ blockCount \in {0, preStart.audio.blockCount}

\* StartAudio, called while the engine ran, is about to install
C12_Witness ==
    /\ gpc = "s_install" /\ preStart.active
    /\ preStart.audio.samplesMemory = "live"
    /\ device = "closed" /\ samplesMemory = "freed" /\ blocks = "freed"

\* ------------------------------------------------------------ ring order --
\* C20: the first block a run hands to waveOutWrite is block 0 and every
\* later one is the block after the one before it, modulo blockCount.
C20_RingOrder ==
    [][(wpc = "fill" /\ wpc' = "top" /\ InRing(currentBlock, blockCount))
          => currentBlock = IF lastSubmitted = 0 - 1 THEN 0
                            ELSE (lastSubmitted + 1) % blockCount]_vars

\* --------------------------------------------------------------- mixing --
\* the clip the fill loop on its own plays
TheClip == audioClips[1]

\* channel c of frame k of a clip, and silence after its last frame
FrameSample(ac, k, c) ==
    IF k < ac.length THEN ClipData(ac, k * ac.nChannels + c) ELSE 0

\* C13: with one instance that does not loop and the default hooks, the
\* mixer returns channel c of clip frame k for channel c of output frame k,
\* silence after frame L-1, and the instance is in the table until frame
\* L-1 is consumed and gone after it.
C13_PlaysClipOnce ==
    (played = 1 /\ ~mixLoop /\ hookSample = 0 /\ Mixed) =>
        /\ lastMixed = FrameSample(TheClip, lastFrame, lastChan)
        /\ ticks >= TheClip.length => currentlyPlayingClips = <<>>
        /\ (mixChan = 0 /\ ticks < TheClip.length) =>
              currentlyPlayingClips # <<>>

\* a GetMixerOutput call is made in this step
MixStep == ticks' # ticks \/ mixChan' # mixChan

\* C14: a looping instance stays in the table through every sweep, and the
\* call after the one that read the last frame reads frame 0 with the
\* cursor at 0.
C14_LoopSeam ==
    /\ []((played = 1 /\ mixLoop) => Len(currentlyPlayingClips) = 1)
    /\ [][(/\ MixStep /\ played = 1 /\ mixLoop /\ hookSample = 0
           /\ TheClip.length > 0
           /\ currentlyPlayingClips[1].samplePosition = TheClip.length - 1)
             => /\ currentlyPlayingClips'[1].samplePosition = 0
                /\ lastMixed' = FrameSample(TheClip, 0, mixChan)]_vars

C16_Superposition ==
    (played >= 1 /\ hookSample = 0 /\ Mixed) =>
        /\ lastMixed = played * refMixed
        /\ Len(currentlyPlayingClips) = played * Len(refClips)
        /\ \A i \in DOMAIN currentlyPlayingClips :
              currentlyPlayingClips[i] = refClips[1]

\* two instances were mixed and a single one is not silent
C16_Witness ==
    /\ played = 2 /\ hookSample = 0 /\ Mixed
    /\ refMixed # 0 /\ lastMixed = 2 * refMixed

\* C17: the short written is the clamped amplitude: MAXSHORT at or above
\* 1.0f, -MAXSHORT at or below -1.0f, the amplitude's whole steps between,
\* and so always within -32767..32767.
C17_ClippedSample ==
    Mixed =>
        /\ lastWritten \in (0 - MAXSHORT)..MAXSHORT
        /\ lastMixed >= FullScale => lastWritten = MAXSHORT
        /\ lastMixed <= 0 - FullScale => lastWritten = 0 - MAXSHORT
        /\ (lastMixed > 0 - FullScale /\ lastMixed < FullScale) =>
              lastWritten = Truncate(lastMixed)

\* an amplitude above 1.0f was written as MAXSHORT
C17_Witness == Mixed /\ lastMixed > FullScale /\ lastWritten = MAXSHORT

\* ---------------------------------------------------------- global time --
\* C19: each frame moves globalTime forward by timeStep with nothing
\* rounded away, and nothing else changes it but DestroyAudio setting it to
\* 0.
C19_ClockAdvances ==
    [][/\ ticks' = ticks + 1 =>
             /\ FloatLess(globalTime, globalTime')
             /\ FloatAddExact(globalTime, TimeStep)
       /\ ticks' = ticks =>
             \/ globalTime' = globalTime
             \/ globalTime' = FloatZero /\ channels' = 0]_vars

\* --------------------------------------------------------------- cursor --
\* the instances the last call, a restart, applied to are at the start and
\* neither paused nor finished
RestartedAtStart ==
    lastCall.op \in {"RestartAudio", "RestartAllAudio"} =>
        \A i \in DOMAIN currentlyPlayingClips :
            (\/ lastCall.op = "RestartAllAudio"
             \/ currentlyPlayingClips[i].audioClipID = lastCall.id) =>
                /\ currentlyPlayingClips[i].samplePosition = 0
                /\ ~currentlyPlayingClips[i].paused
                /\ ~currentlyPlayingClips[i].finished

\* C18: every instance in the table that is not finished has its cursor
\* below the length of its clip, whatever play, pause, restart, stop and
\* sweep calls have run, and the instances a restart applies to have cursor
\* 0 and are neither paused nor finished.
C18_CursorBelowLength ==
    /\ \A i \in DOMAIN currentlyPlayingClips :
          ~currentlyPlayingClips[i].finished =>
              currentlyPlayingClips[i].samplePosition
                  < ClipOf(currentlyPlayingClips[i]).length
    /\ RestartedAtStart

\* C18 for the clips that have a frame: an instance that is not finished
\* and whose clip is not empty has its cursor below the length of its clip,
\* and the instances a restart applies to have cursor 0 and are neither
\* paused nor finished.
C18_CursorBelowLengthNonEmpty ==
    /\ \A i \in DOMAIN currentlyPlayingClips :
          (/\ ~currentlyPlayingClips[i].finished
           /\ ClipOf(currentlyPlayingClips[i]).length > 0) =>
              currentlyPlayingClips[i].samplePosition
                  < ClipOf(currentlyPlayingClips[i]).length
    /\ RestartedAtStart

\* a sweep has left an instance on the last frame of its clip
C18_Witness ==
    /\ lastCall.op = "GetMixerOutput"
    /\ \E i \in DOMAIN currentlyPlayingClips :
          /\ ~currentlyPlayingClips[i].finished
          /\ currentlyPlayingClips[i].samplePosition > 0
          /\ currentlyPlayingClips[i].samplePosition
                = ClipOf(currentlyPlayingClips[i]).length - 1

\* ------------------------------------------------ ring index and restarts --
\* C24: whenever the worker is at blocks[currentBlock] or at the sample
\* memory of that block, currentBlock is an index of the current run's ring.
C24_RingIndexInRange ==
    wpc \in {"unprep", "fill"} => InRing(currentBlock, blockCount)

\* ------------------------------------------------------ main loop exit ----
\* C25: the game thread has left its loop only when OnDestroy has returned
\* true, the teardown has run and finished.notify_one() has been called.
C25_ExitImpliesTeardown ==
    gpc = "done" => (destroyAccepted /\ teardownDone /\ signalCount >= 1)

\* ---------------------------------------------------- block conservation --
\* the engine runs: started, not being stopped
EngineRuns ==
    /\ audioThreadActive /\ device = "open"
    /\ wpc \notin {"none", "exited"}

\* the worker has claimed a block it has not yet submitted
Claimed == IF wpc \in {"unprep", "fill"} THEN 1 ELSE 0

\* blocks submitted whose completion waveOutProc has not yet counted
Uncounted == Len(queue) + (IF cpc = "inc" THEN 1 ELSE 0)

\* C27: while the engine runs with block count N, the free blocks, the
\* block the worker has claimed and the submitted blocks not yet counted
\* back add up to N.
C27_BlockConservation ==
    EngineRuns => freeBlocks + Claimed + Uncounted = blockCount

\* ------------------------------------------------------ cursor per frame --
\* frames whose first channel has been mixed since the instances were played
FramesBegun == ticks + (IF mixChan > 0 THEN 1 ELSE 0)

\* C26: whatever the channel count, an instance's cursor has advanced by one
\* clip frame for each output frame begun (modulo the length when it loops),
\* so every channel of an output frame is read at the same cursor.
C26_CursorPerFrame ==
    (played >= 1 /\ currentlyPlayingClips # <<>> /\ TheClip.length > 0) =>
        currentlyPlayingClips[1].samplePosition =
            IF mixLoop THEN FramesBegun % TheClip.length ELSE FramesBegun

\* ------------------------------------------------------- invalid handle ---
\* C21: PlayAudioClip with an id below 0 or at or above audioClips.size(),
\* the converted failure value of LoadAudioClip among them, changes neither
\* the playback table nor anything else of the engine.
C21_InvalidHandleIgnored ==
    [][(/\ lastCall'.op = "PlayAudioClip"
        /\ (lastCall'.id < 0 \/ lastCall'.id >= Len(audioClips)))
          => UNCHANGED <<currentlyPlayingClips, audioClips, lifeVars,
                         audioVars, histVars, tableVars, fillVars>>]_vars

\* PlayAudioClip was called with LoadAudioClip's failure value while an
\* instance was playing
C21_Witness ==
    /\ lastCall.op = "PlayAudioClip" /\ lastCall.id = ToInt(LoadFailed)
    /\ currentlyPlayingClips # <<>>

\* ------------------------------------------------------- LoadAudioClip ---
\* chunks that follow the format chunk in a file
MaxChunks == 2

\* the tags of those chunks
ChunkTags == {"LIST", "data"}

ChunkLists == UNION {[1..n -> ChunkTags] : n \in 0..MaxChunks}

\* samples a data chunk declares or holds
PayloadSizes == 0..(ClipLength * MaxChannels)

\* The files LoadAudioClip is called with: the three tags of the header, the
\* fields of the format chunk, the chunks after it, and for the first data
\* chunk the samples its size field declares and the samples the file holds.
Files ==
    {f \in [outer : {"RIFF", "RIFX"}, form : {"WAVE", "RMID"},
            fmtTag : {"fmt ", "LIST"}, bits : {8, 16},
            rate : {22050, 44100}, nChannels : 1..MaxChannels,
            chunks : ChunkLists, declared : PayloadSizes,
            present : PayloadSizes, pattern : {"ramp"}] :
        /\ f.present <= f.declared
        /\ "data" \notin Range(f.chunks) => f.declared = 0}

\* the size field of chunk i: a data chunk of shorts, a LIST chunk of one tag
SizeAt(f, i) == IF f.chunks[i] = "data" THEN 2 * f.declared ELSE 4

\* fread(&field, ...); fread(&subchunkSize, ...) at chunk i: nothing is
\* delivered at the end of the file and both keep what they held
ReadChunkHeader(f, i, fld, size) ==
    IF i <= Len(f.chunks) THEN [field |-> f.chunks[i], size |-> SizeAt(f, i)]
    ELSE [field |-> fld, size |-> size]

loadRest == <<lifeVars, audioVars, tableVars, histVars, lastCall, fillVars,
              spriteVars>>

\* LoadAudioClip(fileName): AudioClip audioClip(fileName) opens the file
LoadOpen ==
    /\ lpc = "idle"
    /\ \E f \in Files : file' = f
    /\ lpc' = "header"
    /\ storeBefore' = audioClips
    /\ audioClip' = DefaultClip
    /\ UNCHANGED <<field, subchunkSize, chunkAt, loadResult, audioClips>>
    /\ UNCHANGED loadRest

\* the tags "RIFF", "WAVE", "fmt ", the format, and the next chunk's header
LoadHeader ==
    /\ lpc = "header"
    /\ IF file.outer # "RIFF"
         THEN /\ field' = file.outer /\ lpc' = "return"
              /\ UNCHANGED <<subchunkSize, chunkAt>>
       ELSE IF file.form # "WAVE"
         THEN /\ field' = file.form /\ lpc' = "return"
              /\ UNCHANGED <<subchunkSize, chunkAt>>
       ELSE IF file.fmtTag # "fmt "
         THEN /\ field' = file.fmtTag /\ lpc' = "return"
              /\ UNCHANGED <<subchunkSize, chunkAt>>
       ELSE IF file.bits # 16 \/ file.rate # 44100
         THEN /\ field' = "size" /\ lpc' = "return"
              /\ UNCHANGED <<subchunkSize, chunkAt>>
       ELSE LET header == ReadChunkHeader(file, 1, "size", 0)
            IN  /\ field' = header.field
                /\ subchunkSize' = header.size
                /\ chunkAt' = 1
                /\ lpc' = "search"
    /\ UNCHANGED <<file, audioClip, loadResult, storeBefore, audioClips>>
    /\ UNCHANGED loadRest

\* while (strncmp(field, "data", 4) != 0) { fseek; fread; fread; }
LoadSearch ==
    /\ lpc = "search"
    /\ IF field = "data"
         THEN lpc' = "read" /\ UNCHANGED <<field, subchunkSize, chunkAt>>
         ELSE LET at == Min(chunkAt + 1, Len(file.chunks) + 1)
                  header == ReadChunkHeader(file, at, field, subchunkSize)
              IN  /\ chunkAt' = at
                  /\ field' = header.field
                  /\ subchunkSize' = header.size
                  /\ lpc' = "search"
    /\ UNCHANGED <<file, audioClip, loadResult, storeBefore, audioClips>>
    /\ UNCHANGED loadRest

\* length, data = new float[...], the read loop, isValid = true
LoadRead ==
    /\ lpc = "read"
    /\ LET length == subchunkSize \div (file.nChannels * (file.bits \div 8))
       IN  audioClip' =
             [isValid |-> TRUE, pattern |-> file.pattern,
              nChannels |-> file.nChannels, length |-> length,
              present |-> Min(file.present, length * file.nChannels)]
    /\ lpc' = "return"
    /\ UNCHANGED <<file, field, subchunkSize, chunkAt, loadResult,
                   storeBefore, audioClips>>
    /\ UNCHANGED loadRest

\* if (!audioClip.isValid) return -1; push_back; return size() - 1
LoadReturn ==
    /\ lpc = "return"
    /\ IF ~audioClip.isValid
         THEN loadResult' = LoadFailed /\ UNCHANGED audioClips
         ELSE /\ audioClips' =
                   Append(audioClips,
                          [pattern |-> audioClip.pattern,
                           nChannels |-> audioClip.nChannels,
                           length |-> audioClip.length,
                           present |-> audioClip.present])
              /\ loadResult' = Handle(Len(audioClips') - 1)
    /\ lpc' = "returned"
    /\ UNCHANGED <<file, field, subchunkSize, chunkAt, audioClip,
                   storeBefore>>
    /\ UNCHANGED loadRest

LoadNext ==
    \/ LoadOpen
    \/ LoadHeader
    \/ LoadSearch
    \/ LoadRead
    \/ LoadReturn

LoadSpec == TableInit /\ [][LoadNext]_vars

\* wrong outer tag, form tag or format tag
Malformed(f) == f.outer # "RIFF" \/ f.form # "WAVE" \/ f.fmtTag # "fmt "

\* a sample format other than 16 bits at 44100 Hz
Unsupported(f) == f.bits # 16 \/ f.rate # 44100

\* no data chunk, or fewer samples than the data chunk declares
PayloadShort(f) == "data" \notin Range(f.chunks) \/ f.present < f.declared

\* C22: when LoadAudioClip has returned for a file that is malformed, of an
\* unsupported sample format, or whose payload is missing or truncated, it
\* has returned the failure value and audioClips is what it was at the call.
C22_BadFileFails ==
    (lpc = "returned" /\ (Malformed(file) \/ Unsupported(file)
                            \/ PayloadShort(file))) =>
        (loadResult = LoadFailed /\ audioClips = storeBefore)

\* ----------------------------------------------------------- Sprite -----
\* the largest width and height of a sprite
MaxSide == 2

PIXEL_SOLID == 9608
FG_WHITE == 15
BG_BLACK == 0

\* the arguments of SetCharacter and SetColor
Characters == {PIXEL_SOLID}
Colors == {FG_WHITE}

\* short to WCHAR or WORD
ToWord(value) == value % 65536

\* Sprite::Create on a sprite s
Create(s, width, height) ==
    IF width <= 0 \/ height <= 0 THEN s
    ELSE [width |-> width, height |-> height, alloc |-> TRUE,
          contents |-> [i \in 1..(width * height) |->
                           [ch |-> 32, attr |-> BG_BLACK]]]

\* the bytes of an int and of a 16-bit field, least significant first
IntBytes(n) ==
    <<n % 256, (n \div 256) % 256, (n \div 65536) % 256,
      (n \div 16777216) % 256>>
WordBytes(v) == <<v % 256, v \div 256>>

\* the bytes of a CHAR_INFO: Char.UnicodeChar, then Attributes
CellBytes(cell) == WordBytes(cell.ch) \o WordBytes(cell.attr)

\* what Sprite::Save writes
SavedBytes(s) ==
    IntBytes(s.width) \o IntBytes(s.height) \o
    [k \in 1..(4 * s.width * s.height) |->
        CellBytes(s.contents[((k - 1) \div 4) + 1])[((k - 1) % 4) + 1]]

\* fread of an int at offset at; held is kept when the file is too short
ReadInt(bytes, at, held) ==
    IF at + 4 > Len(bytes) THEN held
    ELSE LET top == bytes[at + 4]
         IN  bytes[at + 1] + 256 * bytes[at + 2] + 65536 * bytes[at + 3]
             + 16777216 * (IF top >= 128 THEN top - 256 ELSE top)

ReadWord(bytes, at) == bytes[at + 1] + 256 * bytes[at + 2]

\* Sprite::Load on a sprite s, after its delete[] contents
LoadedSprite(s, bytes) ==
    LET width == ReadInt(bytes, 0, 0)
        height == ReadInt(bytes, 4, 0)
        created == Create([s EXCEPT !.width = width, !.height = height],
                          width, height)
    IN  [created EXCEPT !.contents =
            [i \in 1..Len(created.contents) |->
                IF 8 + 4 * i <= Len(bytes)
                THEN [ch |-> ReadWord(bytes, 4 + 4 * i),
                      attr |-> ReadWord(bytes, 6 + 4 * i)]
                ELSE created.contents[i]]]

spriteRest == <<lifeVars, audioVars, tableVars, histVars, audioClips,
                lastCall, fillVars, loadVars>>

\* Sprite(width, height)
SpriteCreate ==
    /\ spc = "none"
    /\ \E width \in 1..MaxSide, height \in 1..MaxSide :
         sprite' = Create(NewSprite, width, height)
    /\ spc' = "made"
    /\ UNCHANGED <<saved, target, scrashed>>
    /\ UNCHANGED spriteRest

\* SetCharacter(x, y, character)
SpriteSetCharacter ==
    /\ spc = "made"
    /\ \E x \in 0..(sprite.width - 1), y \in 0..(sprite.height - 1),
          character \in Characters :
         sprite' = [sprite EXCEPT
                      !.contents[sprite.width * y + x + 1].ch =
                          ToWord(character)]
    /\ UNCHANGED <<spc, saved, target, scrashed>>
    /\ UNCHANGED spriteRest

\* SetColor(x, y, color)
SpriteSetColor ==
    /\ spc = "made"
    /\ \E x \in 0..(sprite.width - 1), y \in 0..(sprite.height - 1),
          color \in Colors :
         sprite' = [sprite EXCEPT
                      !.contents[sprite.width * y + x + 1].attr =
                          ToWord(color)]
    /\ UNCHANGED <<spc, saved, target, scrashed>>
    /\ UNCHANGED spriteRest

\* sprite.Save(fileName)
SpriteSave ==
    /\ spc = "made"
    /\ saved' = SavedBytes(sprite)
    /\ spc' = "saved"
    /\ UNCHANGED <<sprite, target, scrashed>>
    /\ UNCHANGED spriteRest

\* Sprite(fileName): Load on a sprite whose contents is nullptr
SpriteLoadNew ==
    /\ spc = "saved"
    /\ target' = LoadedSprite(NewSprite, saved)
    /\ spc' = "loaded"
    /\ UNCHANGED <<sprite, saved, scrashed>>
    /\ UNCHANGED spriteRest

\* sprite.Load(fileName) on the sprite that was saved: Load deletes contents
\* and leaves the pointer, Create deletes it again; the second delete[] of
\* the same array either goes unnoticed or aborts the process
SpriteLoad ==
    /\ spc = "saved"
    /\ \/ /\ target' = LoadedSprite(sprite, saved)
          /\ UNCHANGED scrashed
       \/ /\ sprite.alloc
          /\ target' = [sprite EXCEPT !.width = ReadInt(saved, 0, 0),
                                      !.height = ReadInt(saved, 4, 0),
                                      !.alloc = FALSE, !.contents = <<>>]
          /\ scrashed' = TRUE
    /\ spc' = "loaded"
    /\ UNCHANGED <<sprite, saved>>
    /\ UNCHANGED spriteRest

SpriteNext ==
    \/ SpriteCreate
    \/ SpriteSetCharacter
    \/ SpriteSetColor
    \/ SpriteSave
    \/ SpriteLoadNew
    \/ SpriteLoad

SpriteSpec == Init /\ [][SpriteNext]_vars

\* C23: after Save and then Load of the saved file, the loaded sprite has the
\* width, the height and in every cell the character and the attributes of
\* the sprite that was saved.
C23_SpriteRoundTrip ==
    spc = "loaded" =>
        /\ ~scrashed
        /\ target.width = sprite.width /\ target.height = sprite.height
        /\ target.contents = sprite.contents

====
